---- MODULE Spec2Model ----
(***************************************************************************)
(* Model of vaila/stabilogram_analysis.py: the stabilometric analyzers     *)
(* applied to a Center-of-Pressure trajectory (cop_x, cop_y).              *)
(*                                                                         *)
(* Samples are integers (a fixed-point grid of centimetres).  Quotients    *)
(* are kept exact as pairs <<numerator, denominator>>, square roots as     *)
(* bags  radicand :> coefficient  (k * sqrt(m), m square-free), so the     *)
(* arithmetic of the analyzers is exact real arithmetic on the grid.       *)
(* An exception raised by a call is the status "raised" of the call.       *)
(***************************************************************************)
EXTENDS Integers, Sequences, FiniteSets, Bags, TLC

\* ---------------------------------------------------------------- bounds
MaxLen == 3          \* longest enumerated series
MaxVal == 1          \* samples range over -MaxVal..MaxVal
MaxFs == 2           \* sampling rates 1..MaxFs (Hz)
MaxDeltaT10 == 10    \* time lags 0.1 s .. MaxDeltaT10/10 s, in tenths of a second
MaxWindow == 4       \* requested window lengths 1..MaxWindow
MaxPoly == 3         \* polynomial orders 0..MaxPoly
MaxRadius == 2       \* radii -1..MaxRadius
MaxLabelLen == 2     \* longest enumerated metric label
MaxFigures == 2      \* most figures open at a time
MaxFrame == 3        \* frame widths and heights 2..MaxFrame (pixels)
MaxScale == 2        \* scale factors 1..MaxScale
MaxCoord == 2        \* coordinates 0..MaxCoord in a table cell
MaxMouse == 2        \* mouse positions 0..MaxMouse in each direction

Vals == (-MaxVal)..MaxVal

\* the scenario series of the specification, and a series of length 10
ScenarioX == <<0, 1, 0, -1, 0, 1, 0, -1>>
ScenarioY == <<0, 0, 0, 0, 0, 0, 0, 0>>
TenX == <<0, 1, 0, -1, 0, 1, 0, -1, 0, 1>>
\* a series with a flat-topped maximum
PlateauX == <<0, 1, 1, 0>>

\* the ML series analysed
Series ==
    (UNION {[1..n -> Vals] : n \in 0..MaxLen}) \cup {ScenarioX, TenX, PlateauX}

Zeros(n) == [i \in 1..n |-> 0]
Reversed(s) == [i \in 1..Len(s) |-> s[Len(s) + 1 - i]]
Alternating(n) == [i \in 1..n |-> i % 2]

\* CoPTrajectory: two co-indexed series of equal length; the AP series is
\* all zero, the ML series itself, the ML series reversed, or 1,0,1,0,..
Trajectories ==
    UNION {{<<x, y>> : y \in {Zeros(Len(x)), x, Reversed(x), Alternating(Len(x))}}
              : x \in Series}

\* series pairs a caller can pass that are no CoPTrajectory: the AP series is
\* one sample shorter or one sample longer than the ML series
Mismatched ==
    UNION {{<<x, y>> : y \in {SubSeq(x, 1, Len(x) - 1), Append(x, 0)}}
              : x \in Series}

FsVals == 1..MaxFs
DeltaT10s == 1..MaxDeltaT10
WindowLengths == (1..MaxWindow) \cup {100}
PolyOrders == 0..MaxPoly
Radii == (-1)..MaxRadius

\* metric labels are sequences of characters
LabelChars == {"a", "_", " ", "(", ")", "²", "·", "³"}
RmsLabel == <<"R", "M", "S", " ", "(", "c", "m", "²", ")">>
Labels == (UNION {[1..n -> LabelChars] : n \in 1..MaxLabelLen}) \cup {RmsLabel}

\* a metrics mapping is the sequence of its (label, value) items in iteration
\* order, the labels distinct; the i-th item carries the value i.  Mappings
\* of two items have a one-character second label.
MetricsDicts ==
    {<<>>} \cup {<<<<k, 1>>>> : k \in Labels}
           \cup {<<<<k[1], 1>>, <<k[2], 2>>>> :
                     k \in {kk \in Labels \X [1..1 -> LabelChars] :
                                kk[1] # kk[2]}}

\* cop_x, cop_y: the trial analysed; call: the analyzer call in progress;
\* prev: the previous call of a caller that repeats calls; figs: the open
\* figures of matplotlib.pyplot, the current one last; threads: the plot call
\* of each thread; selector: the fields of a ROISelector
VARIABLES cop_x, cop_y, call, prev, figs, threads, selector
vars == <<cop_x, cop_y, call, prev, figs, threads, selector>>

\* the threads that make plot calls
Threads == {"t1", "t2"}

\* no previous call, no open figure, no plot call, no ROISelector
NoCall == [op |-> "none"]
NoThreads == [t \in Threads |-> [pc |-> "idle"]]
NoSelector == [state |-> "none"]

\* ------------------------------------------------------- numpy primitives
Min(a, b) == IF a <= b THEN a ELSE b
Max(a, b) == IF a >= b THEN a ELSE b
Abs(a) == IF a < 0 THEN -a ELSE a

\* a Python slice bound, normalised against length n
SliceIndex(i, n) == IF i < 0 THEN Max(i + n, 0) ELSE Min(i, n)

\* s[start:stop] of a 0-indexed Python sequence
PySlice(s, start, stop) ==
    SubSeq(s, SliceIndex(start, Len(s)) + 1, SliceIndex(stop, Len(s)))

\* s[start:]
SliceFrom(s, start) == PySlice(s, start, Len(s))

\* s[:stop]
SliceTo(s, stop) == PySlice(s, 0, stop)

\* shapes (m,) and (n,) broadcast together
Broadcastable(a, b) == Len(a) = Len(b) \/ Len(a) = 1 \/ Len(b) = 1

BroadcastLen(a, b) ==
    IF Len(a) = Len(b) THEN Len(a) ELSE IF Len(a) = 1 THEN Len(b) ELSE Len(a)

BroadcastAt(a, i) == IF Len(a) = 1 THEN a[1] ELSE a[i]

\* a - b, a * b elementwise on 1-D arrays
ArraySub(a, b) ==
    [i \in 1..BroadcastLen(a, b) |-> BroadcastAt(a, i) - BroadcastAt(b, i)]

ArrayMul(a, b) ==
    [i \in 1..BroadcastLen(a, b) |-> BroadcastAt(a, i) * BroadcastAt(b, i)]

ArrayAdd(a, b) ==
    [i \in 1..BroadcastLen(a, b) |-> BroadcastAt(a, i) + BroadcastAt(b, i)]

ArraySquare(a) == [i \in 1..Len(a) |-> a[i] * a[i]]

RECURSIVE ArraySum(_)
ArraySum(a) == IF Len(a) = 0 THEN 0 ELSE a[1] + ArraySum(Tail(a))

\* (mask).sum(): number of True entries
CountTrue(mask) == ArraySum([i \in 1..Len(mask) |-> IF mask[i] THEN 1 ELSE 0])

\* np.mean: the quotient sum/len; <<0, 0>> is nan (mean of an empty array)
ArrayMean(a) == <<ArraySum(a), Len(a)>>

\* np.diff
ArrayDiff(a) == ArraySub(SliceFrom(a, 1), SliceTo(a, -1))

\* np.sqrt of a non-negative integer n: k * sqrt(m) with n = k*k*m and m
\* square-free, as the bag m :> k (the empty bag is 0)
SquarePart(n) ==
    CHOOSE k \in 1..n : n % (k * k) = 0 /\ \A j \in (k + 1)..n : n % (j * j) # 0

Sqrt(n) ==
    IF n = 0 THEN EmptyBag
    ELSE LET k == SquarePart(n) IN [m \in {n \div (k * k)} |-> k]

\* np.sum of an array of square roots
RECURSIVE SurdSum(_)
SurdSum(a) == IF Len(a) = 0 THEN EmptyBag ELSE a[1] (+) SurdSum(Tail(a))

\* greatest common divisor of two naturals
RECURSIVE Gcd(_, _)
Gcd(a, b) == IF b = 0 THEN a ELSE Gcd(b, a % b)

\* np.sqrt of a quotient <<p, q>> (p >= 0): (a/b) * sqrt(m) with a/b in lowest
\* terms and m square-free, as [coef |-> <<a, b>>, rad |-> m]; the square
\* root of nan (<<0, 0>>) is nan, coef <<0, 0>>
SqrtQuotient(mean) ==
    IF mean[2] = 0 THEN [coef |-> <<0, 0>>, rad |-> 1]
    ELSE IF mean[1] = 0 THEN [coef |-> <<0, 1>>, rad |-> 1]
    ELSE LET g == Gcd(mean[1], mean[2])
             p == mean[1] \div g
             q == mean[2] \div g
             k == SquarePart(p * q)
             h == Gcd(k, q)
         IN  [coef |-> <<k \div h, q \div h>>, rad |-> (p * q) \div (k * k)]

\* ------------------------------------------------------------- analyzers
compute_rms_centered(x, y) ==
    [rms_ml |-> SqrtQuotient(<<Len(x) * ArraySum(ArraySquare(x))
                                  - ArraySum(x) * ArraySum(x), Len(x) * Len(x)>>),
     rms_ap |-> SqrtQuotient(<<Len(y) * ArraySum(ArraySquare(y))
                                  - ArraySum(y) * ArraySum(y), Len(y) * Len(y)>>)]

compute_rms(x, y) ==
    LET rms_ml == SqrtQuotient(ArrayMean(ArraySquare(x)))
        rms_ap == SqrtQuotient(ArrayMean(ArraySquare(y)))
    IN  [rms_ml |-> rms_ml, rms_ap |-> rms_ap]

\* the segment length compute_power_spectrum passes to welch
nperseg == 256

\* trajectories of one segment length and of one sample more
LongTrajectories ==
    {<<Zeros(nperseg), Zeros(nperseg)>>,
     <<Alternating(nperseg + 1), Zeros(nperseg + 1)>>}

\* a spectral estimate that does not shorten the segment to the series
welch_no_clamp(x, fs) ==
    IF Len(x) = 0 THEN <<>>
    ELSE [k \in 1..(nperseg \div 2 + 1) |-> <<(k - 1) * fs, nperseg>>]

\* scipy.signal.welch(x, fs=fs, nperseg=256): the frequency bins it returns,
\* k * fs / nfft for k = 0..nfft/2 as quotients <<k * fs, nfft>>; a series
\* shorter than nperseg is used as one segment (nfft = len(x)), an empty
\* series gives empty arrays
welch(x, fs) ==
    IF Len(x) = 0 THEN <<>>
    ELSE LET nfft == Min(nperseg, Len(x))
         IN  [k \in 1..(nfft \div 2 + 1) |-> <<(k - 1) * fs, nfft>>]

\* the PSD arrays are represented by their lengths
compute_power_spectrum(x, y, fs) ==
    [freqs_ml |-> welch(x, fs), psd_ml |-> Len(welch(x, fs)),
     freqs_ap |-> welch(y, fs), psd_ap |-> Len(welch(y, fs))]

count_zero_crossings_le(signal) ==
    CountTrue([i \in 1..Len(ArrayMul(SliceTo(signal, -1), SliceFrom(signal, 1)))
                 |-> ArrayMul(SliceTo(signal, -1), SliceFrom(signal, 1))[i] <= 0])

count_zero_crossings(signal) ==
    LET products == ArrayMul(SliceTo(signal, -1), SliceFrom(signal, 1))
    IN  CountTrue([i \in 1..Len(products) |-> products[i] < 0])

compute_total_path_length_short(x, y) ==
    LET diffs_x == ArrayDiff(SliceTo(x, -1))
        diffs_y == ArrayDiff(SliceTo(y, -1))
        squares == ArrayAdd(ArraySquare(diffs_x), ArraySquare(diffs_y))
        distances == [i \in 1..Len(squares) |-> Sqrt(squares[i])]
    IN  SurdSum(distances)

compute_total_path_length(x, y) ==
    LET diffs_x == ArrayDiff(x)
        diffs_y == ArrayDiff(y)
        squares == ArrayAdd(ArraySquare(diffs_x), ArraySquare(diffs_y))
        distances == [i \in 1..Len(squares) |-> Sqrt(squares[i])]
    IN  SurdSum(distances)

\* diffs_x**2 + diffs_y**2 raises when the two shapes do not broadcast
path_length_raises(x, y) == ~Broadcastable(ArrayDiff(x), ArrayDiff(y))

\* int(num/den): truncation toward zero
PyInt(num, den) ==
    IF num >= 0 THEN num \div den ELSE -((-num) \div den)

\* delta_t is dt10/10 seconds; the quotient of a mean is <<sum, count>>
compute_msd_mean_over_N(S_n, fs, dt10) ==
    LET delta_n == PyInt(dt10 * fs, 10)
        N == Len(S_n)
        hi == SliceFrom(S_n, delta_n)
        lo == SliceTo(S_n, -delta_n)
    IN  IF delta_n >= N
        THEN [status |-> "raised", delta_n |-> delta_n,
              error |-> "ValueError: delta_t is too large for the signal length."]
        ELSE IF ~Broadcastable(hi, lo)
        THEN [status |-> "raised", delta_n |-> delta_n,
              error |-> "ValueError: operands could not be broadcast together"]
        ELSE [status |-> "ok", delta_n |-> delta_n,
              value |-> <<ArraySum(ArraySquare(ArraySub(hi, lo))), N>>]

compute_msd(S_n, fs, dt10) ==
    LET delta_n == PyInt(dt10 * fs, 10)
        N == Len(S_n)
        hi == SliceFrom(S_n, delta_n)
        lo == SliceTo(S_n, -delta_n)
    IN  IF delta_n >= N
        THEN [status |-> "raised", delta_n |-> delta_n,
              error |-> "ValueError: delta_t is too large for the signal length."]
        ELSE IF ~Broadcastable(hi, lo)
        THEN [status |-> "raised", delta_n |-> delta_n,
              error |-> "ValueError: operands could not be broadcast together"]
        ELSE [status |-> "ok", delta_n |-> delta_n,
              value |-> ArrayMean(ArraySquare(ArraySub(hi, lo)))]

\* scipy.signal.savgol_filter(x, window_length, polyorder, deriv=1, delta=..)
\* in its default mode 'interp': the conditions under which it raises, and
\* the length of the series it returns
savgol_filter(x, window_length, polyorder) ==
    IF polyorder >= window_length
    THEN [status |-> "raised",
          error |-> "ValueError: polyorder must be less than window_length."]
    ELSE IF window_length > Len(x)
    THEN [status |-> "raised",
          error |-> "ValueError: window_length must be less than or equal to the size of x."]
    ELSE [status |-> "ok", len |-> Len(x)]

compute_speed_len_minus_1(x, y, fs, window_length, polyorder) ==
    LET clamped == Min(window_length, Len(x) - 1)
        window == IF clamped % 2 = 0 THEN clamped + 1 ELSE clamped
        speed_ml == savgol_filter(x, window, polyorder)
        speed_ap == savgol_filter(y, window, polyorder)
    IN  IF speed_ml.status = "raised"
        THEN [status |-> "raised", window |-> window, error |-> speed_ml.error]
        ELSE IF speed_ap.status = "raised"
        THEN [status |-> "raised", window |-> window, error |-> speed_ap.error]
        ELSE [status |-> "ok", window |-> window,
              len_ml |-> speed_ml.len, len_ap |-> speed_ap.len]

compute_speed_valid_only(x, y, fs, window_length, polyorder) ==
    LET clamped == Min(window_length, (Len(x) \div 2) * 2 - 1)
        window == IF clamped % 2 = 0 THEN clamped + 1 ELSE clamped
        speed_ml == savgol_filter(x, window, polyorder)
        speed_ap == savgol_filter(y, window, polyorder)
    IN  IF speed_ml.status = "raised"
        THEN [status |-> "raised", window |-> window, error |-> speed_ml.error]
        ELSE IF speed_ap.status = "raised"
        THEN [status |-> "raised", window |-> window, error |-> speed_ap.error]
        ELSE [status |-> "ok", window |-> window,
              len_ml |-> speed_ml.len - window + 1,
              len_ap |-> speed_ap.len - window + 1]

compute_speed(x, y, fs, window_length, polyorder) ==
    LET clamped == Min(window_length, (Len(x) \div 2) * 2 - 1)
        window == IF clamped % 2 = 0 THEN clamped + 1 ELSE clamped
        speed_ml == savgol_filter(x, window, polyorder)
        speed_ap == savgol_filter(y, window, polyorder)
    IN  IF speed_ml.status = "raised"
        THEN [status |-> "raised", window |-> window, error |-> speed_ml.error]
        ELSE IF speed_ap.status = "raised"
        THEN [status |-> "raised", window |-> window, error |-> speed_ap.error]
        ELSE [status |-> "ok", window |-> window,
              len_ml |-> speed_ml.len, len_ap |-> speed_ap.len]

\* sway density of a 1-D series: each value is the quotient <<count, N>>
compute_sway_density_lt(cop_signal, fs, radius) ==
    LET N == Len(cop_signal)
    IN  [t \in 1..N |->
            <<CountTrue([i \in 1..N |->
                            Abs(cop_signal[i] - cop_signal[t]) < radius]), N>>]

compute_sway_density_ge(cop_signal, fs, radius) ==
    LET N == Len(cop_signal)
    IN  [t \in 1..N |->
            <<CountTrue([i \in 1..N |->
                            Abs(cop_signal[i] - cop_signal[t]) >= radius]), N>>]

compute_sway_density(cop_signal, fs, radius) ==
    LET N == Len(cop_signal)
    IN  [t \in 1..N |->
            LET distances == [i \in 1..N |-> Abs(cop_signal[i] - cop_signal[t])]
            IN  <<CountTrue([i \in 1..N |-> distances[i] <= radius]), N>>]

\* sway density of a 2-D (N x k) array, the rows of cop_signal being its
\* samples: cop_signal - cop_signal[t] broadcasts row t over all rows and
\* np.sum counts over all N*k entries
compute_sway_density_2d(cop_signal, fs, radius) ==
    LET N == Len(cop_signal)
    IN  [t \in 1..N |->
            LET distances == [i \in 1..N |->
                                 [j \in 1..Len(cop_signal[i]) |->
                                     Abs(cop_signal[i][j] - cop_signal[t][j])]]
            IN  <<ArraySum([i \in 1..N |->
                     CountTrue([j \in 1..Len(distances[i]) |->
                                   distances[i][j] <= radius])]), N>>]

\* scipy.signal.find_peaks(x) with its default arguments: the local maxima
\* of x, a flat maximum (a run of equal samples with a strictly lower sample
\* on either side) being reported once, at the middle of the run rounded
\* down.  Indices are 0-based.
RECURSIVE PlateauEnd(_, _, _)
PlateauEnd(x, i, i_ahead) ==
    IF i_ahead < Len(x) - 1 /\ x[i_ahead + 1] = x[i + 1]
    THEN PlateauEnd(x, i, i_ahead + 1)
    ELSE i_ahead

RECURSIVE LocalMaxima(_, _, _)
LocalMaxima(x, i, midpoints) ==
    IF i >= Len(x) - 1 THEN midpoints
    ELSE IF x[i] < x[i + 1]
    THEN LET i_ahead == PlateauEnd(x, i, i + 1)
         IN  IF x[i_ahead + 1] < x[i + 1]
             THEN LocalMaxima(x, i_ahead + 1,
                              Append(midpoints, (i + i_ahead - 1) \div 2))
             ELSE LocalMaxima(x, i + 1, midpoints)
    ELSE LocalMaxima(x, i + 1, midpoints)

find_peaks(x) == LocalMaxima(x, 1, <<>>)

count_peaks_strict(signal) ==
    CountTrue([k \in 1..(Len(signal) - 2) |->
                  signal[k] < signal[k + 1] /\ signal[k + 1] > signal[k + 2]])

count_peaks(signal) ==
    LET peaks == find_peaks(signal)
        num_peaks == Len(peaks)
    IN  num_peaks

\* str.replace(old, new) for a one-character old; new is a string
RECURSIVE str_replace(_, _, _)
str_replace(str, old, new) ==
    IF Len(str) = 0 THEN <<>>
    ELSE (IF Head(str) = old THEN new ELSE <<Head(str)>>)
            \o str_replace(Tail(str), old, new)

\* the standardized header of a metric label
new_key(key) ==
    str_replace(
      str_replace(
        str_replace(
          str_replace(
            str_replace(
              str_replace(key, " ", <<"_">>),
              "(", <<"_">>),
            ")", <<>>),
          "²", <<"2">>),
        "·", <<"_">>),
      "³", <<"3">>)

\* d[key] = value on an insertion-ordered dict (a sequence of items)
DictSet(d, key, value) ==
    IF \E i \in 1..Len(d) : d[i][1] = key
    THEN [i \in 1..Len(d) |-> IF d[i][1] = key THEN <<key, value>> ELSE d[i]]
    ELSE Append(d, <<key, value>>)

\* the loop over metrics_dict.items() filling standardized_metrics
RECURSIVE Standardize(_, _)
Standardize(items, standardized_metrics) ==
    IF Len(items) = 0 THEN standardized_metrics
    ELSE Standardize(Tail(items),
                     DictSet(standardized_metrics,
                             new_key(Head(items)[1]), Head(items)[2]))

\* the header row and the data row of the CSV file written
save_metrics_to_csv(metrics_dict) ==
    LET standardized_metrics == Standardize(metrics_dict, <<>>)
    IN  [header |-> [i \in 1..Len(standardized_metrics) |->
                        standardized_metrics[i][1]],
         row |-> [i \in 1..Len(standardized_metrics) |->
                     standardized_metrics[i][2]]]

\* np.column_stack((x, y)): the N x 2 array of the points of the trajectory
RECURSIVE ColumnStack(_, _)
ColumnStack(x, y) ==
    IF Len(x) = 0 THEN <<>>
    ELSE <<<<Head(x), Head(y)>>>> \o ColumnStack(Tail(x), Tail(y))

\* ---------------------------------------------------------------- system
\* no analyzer call is in progress
Idle == call.op = "none"

Init ==
    /\ \E tr \in Trajectories \cup Mismatched : cop_x = tr[1] /\ cop_y = tr[2]
    /\ call = [op |-> "none"]
    /\ prev = NoCall
    /\ figs = <<>>
    /\ threads = NoThreads
    /\ selector = NoSelector

CountZeroCrossings ==
    /\ Idle
    /\ \E signal \in {cop_x, cop_y} :
          call' = [op |-> "count_zero_crossings", signal |-> signal,
                   status |-> "ok", value |-> count_zero_crossings(signal)]
    /\ UNCHANGED <<cop_x, cop_y, prev, figs, threads, selector>>

ComputeTotalPathLength ==
    /\ Idle
    /\ call' = IF path_length_raises(cop_x, cop_y)
               THEN [op |-> "compute_total_path_length", status |-> "raised",
                     value |-> EmptyBag]
               ELSE [op |-> "compute_total_path_length", status |-> "ok",
                     value |-> compute_total_path_length(cop_x, cop_y)]
    /\ UNCHANGED <<cop_x, cop_y, prev, figs, threads, selector>>

ComputeMsd ==
    /\ Idle
    /\ \E S_n \in {cop_x}, fs \in FsVals, dt10 \in DeltaT10s :
          LET r == compute_msd(S_n, fs, dt10)
          IN  call' = [op |-> "compute_msd", signal |-> S_n, fs |-> fs,
                       dt10 |-> dt10, status |-> r.status, delta_n |-> r.delta_n,
                       value |-> IF r.status = "ok" THEN r.value ELSE <<>>]
    /\ UNCHANGED <<cop_x, cop_y, prev, figs, threads, selector>>

ComputeSpeed ==
    /\ Idle
    /\ \E fs \in FsVals, window_length \in WindowLengths, polyorder \in PolyOrders :
          LET r == compute_speed(cop_x, cop_y, fs, window_length, polyorder)
          IN  call' = [op |-> "compute_speed", window_length |-> window_length,
                       polyorder |-> polyorder, status |-> r.status,
                       window |-> r.window,
                       value |-> IF r.status = "ok"
                                 THEN <<r.len_ml, r.len_ap>> ELSE <<>>]
    /\ UNCHANGED <<cop_x, cop_y, prev, figs, threads, selector>>

ComputeSwayDensity ==
    /\ Idle
    /\ \E cop_signal \in {cop_x, cop_y}, fs \in FsVals, radius \in Radii :
          call' = [op |-> "compute_sway_density", ndim |-> 1,
                   signal |-> cop_signal, radius |-> radius, status |-> "ok",
                   value |-> compute_sway_density(cop_signal, fs, radius)]
    /\ UNCHANGED <<cop_x, cop_y, prev, figs, threads, selector>>

ComputeSwayDensity2D ==
    /\ Idle
    /\ Len(cop_x) = Len(cop_y)
    /\ \E fs \in FsVals, radius \in Radii :
          call' = [op |-> "compute_sway_density", ndim |-> 2,
                   array |-> ColumnStack(cop_x, cop_y), radius |-> radius,
                   status |-> "ok",
                   value |-> compute_sway_density_2d(ColumnStack(cop_x, cop_y),
                                                     fs, radius)]
    /\ UNCHANGED <<cop_x, cop_y, prev, figs, threads, selector>>

\* an RMS that squares the series in place (cop_x **= 2)
ComputeRms_in_place ==
    /\ Idle
    /\ call' = [op |-> "compute_rms", status |-> "ok",
                rms |-> compute_rms(cop_x, cop_y)]
    /\ cop_x' = ArraySquare(cop_x)
    /\ cop_y' = ArraySquare(cop_y)
    /\ UNCHANGED <<prev, figs, threads, selector>>

ComputeRms ==
    /\ Idle
    /\ call' = [op |-> "compute_rms", status |-> "ok",
                rms |-> compute_rms(cop_x, cop_y)]
    /\ UNCHANGED <<cop_x, cop_y, prev, figs, threads, selector>>

ComputePowerSpectrum ==
    /\ Idle
    /\ \E fs \in FsVals :
          call' = [op |-> "compute_power_spectrum", status |-> "ok",
                   fs |-> fs, spectrum |-> compute_power_spectrum(cop_x, cop_y, fs)]
    /\ UNCHANGED <<cop_x, cop_y, prev, figs, threads, selector>>

\* two-point trajectories appended to the trajectory analysed
Segments ==
    {tr \in Trajectories :
        Len(tr[1]) = 2 /\ tr[2] \in {Zeros(2), Reversed(tr[1])}}

\* the trajectory A = (cop_x, cop_y), a trajectory B and A ++ B analysed
ComputeTotalPathLengthConcat ==
    /\ Idle
    /\ Len(cop_x) = Len(cop_y)
    /\ Len(cop_x) >= 1
    /\ \E B \in Segments :
          LET dx == B[1][1] - cop_x[Len(cop_x)]
              dy == B[2][1] - cop_y[Len(cop_y)]
          IN  call' = [op |-> "compute_total_path_length ++", B |-> B,
                       status |-> "ok",
                       whole |-> compute_total_path_length(cop_x \o B[1],
                                                           cop_y \o B[2]),
                       first |-> compute_total_path_length(cop_x, cop_y),
                       second |-> compute_total_path_length(B[1], B[2]),
                       join |-> Sqrt(dx * dx + dy * dy)]
    /\ UNCHANGED <<cop_x, cop_y, prev, figs, threads, selector>>

\* the trajectory and the trajectory reversed in time analysed
ComputeTotalPathLengthReversed ==
    /\ Idle
    /\ Len(cop_x) = Len(cop_y)
    /\ call' = [op |-> "compute_total_path_length reversed", status |-> "ok",
                forward |-> compute_total_path_length(cop_x, cop_y),
                backward |-> compute_total_path_length(Reversed(cop_x),
                                                       Reversed(cop_y))]
    /\ UNCHANGED <<cop_x, cop_y, prev, figs, threads, selector>>

\* the same series analysed with two radii r1 <= r2
ComputeSwayDensityRadii ==
    /\ Idle
    /\ \E fs \in FsVals, r1 \in Radii, r2 \in Radii :
          /\ r1 <= r2
          /\ call' = [op |-> "compute_sway_density x2", signal |-> cop_x,
                      r1 |-> r1, r2 |-> r2, status |-> "ok",
                      value1 |-> compute_sway_density(cop_x, fs, r1),
                      value2 |-> compute_sway_density(cop_x, fs, r2)]
    /\ UNCHANGED <<cop_x, cop_y, prev, figs, threads, selector>>

CountPeaks ==
    /\ Idle
    /\ \E signal \in {cop_x, cop_y} :
          call' = [op |-> "count_peaks", signal |-> signal, status |-> "ok",
                   peaks |-> find_peaks(signal), value |-> count_peaks(signal)]
    /\ UNCHANGED <<cop_x, cop_y, prev, figs, threads, selector>>

\* the caller takes the result (or the exception) of the call
Return ==
    /\ ~Idle
    /\ call' = [op |-> "none"]
    /\ UNCHANGED <<cop_x, cop_y, prev, figs, threads, selector>>

Next ==
    \/ CountZeroCrossings
    \/ ComputeTotalPathLength
    \/ ComputeMsd
    \/ ComputeSpeed
    \/ ComputeSwayDensity
    \/ ComputeSwayDensity2D
    \/ ComputeSwayDensityRadii
    \/ CountPeaks
    \/ ComputeRms
    \/ ComputePowerSpectrum
    \/ ComputeTotalPathLengthConcat
    \/ ComputeTotalPathLengthReversed
    \/ Return

Spec == Init /\ [][Next]_vars

\* ------------------------------------------------- the reporting layer
InitCsv ==
    /\ cop_x = <<>>
    /\ cop_y = <<>>
    /\ call = [op |-> "none"]
    /\ prev = NoCall
    /\ figs = <<>>
    /\ threads = NoThreads
    /\ selector = NoSelector

SaveMetricsToCsv ==
    /\ Idle
    /\ \E metrics_dict \in MetricsDicts :
          LET csv == save_metrics_to_csv(metrics_dict)
          IN  call' = [op |-> "save_metrics_to_csv", status |-> "ok",
                       metrics_dict |-> metrics_dict,
                       header |-> csv.header, row |-> csv.row]
    /\ UNCHANGED <<cop_x, cop_y, prev, figs, threads, selector>>

NextCsv ==
    \/ SaveMetricsToCsv
    \/ Return

SpecCsv == InitCsv /\ [][NextCsv]_vars

\* ------------------------------------------------- the plotting layer
\* the trials plotted by plot_stabilogram: a two-sample trial, an empty
\* trial, and a trial whose cop_y does not have the length of time
StabTrials ==
    {[time |-> <<0, 1>>, cop_x |-> <<0, 1>>, cop_y |-> <<1, 0>>],
     [time |-> <<>>, cop_x |-> <<>>, cop_y |-> <<>>],
     [time |-> <<0, 1>>, cop_x |-> <<0, 1>>, cop_y |-> <<>>]}

\* the spectra plotted by plot_power_spectrum: two spectra over the same
\* frequency bins, an empty spectrum, and one whose psd_ml is too short
PsdTrials ==
    {[freqs_ml |-> <<0, 1, 2>>, psd_ml |-> <<1, 2, 2>>,
      freqs_ap |-> <<0, 1, 2, 3>>, psd_ap |-> <<0, 0, 1, 0>>],
     [freqs_ml |-> <<0, 1, 2>>, psd_ml |-> <<2, 1, 1>>,
      freqs_ap |-> <<0, 1, 2, 3>>, psd_ap |-> <<3, 3, 3, 3>>],
     [freqs_ml |-> <<>>, psd_ml |-> <<>>, freqs_ap |-> <<>>, psd_ap |-> <<>>],
     [freqs_ml |-> <<0, 1>>, psd_ml |-> <<1>>,
      freqs_ap |-> <<0, 1>>, psd_ap |-> <<1, 1>>]}

\* np.max(a) of a non-empty array
RECURSIVE np_max(_)
np_max(a) == IF Len(a) = 1 THEN a[1] ELSE Max(a[1], np_max(Tail(a)))

\* np.argmax(a): the first (0-based) index at which a attains its maximum
np_argmax(a) == (CHOOSE i \in 1..Len(a) :
                    /\ a[i] = np_max(a)
                    /\ \A j \in 1..(i - 1) : a[j] # np_max(a)) - 1

\* the array a sorted ascending
RECURSIVE Sorted(_)
Sorted(a) ==
    IF Len(a) = 0 THEN <<>>
    ELSE LET i == CHOOSE k \in 1..Len(a) : \A j \in 1..Len(a) : a[k] <= a[j]
         IN  <<a[i]>> \o Sorted(SubSeq(a, 1, i - 1) \o SubSeq(a, i + 1, Len(a)))

\* np.median(a) as the quotient <<sum of the two middle values, 2>>; nan
\* (<<0, 0>>) for an empty array
np_median(a) ==
    IF Len(a) = 0 THEN <<0, 0>>
    ELSE <<Sorted(a)[(Len(a) + 1) \div 2] + Sorted(a)[Len(a) \div 2 + 1], 2>>

\* the median frequency in the sense of spectral analysis: the first
\* frequency at which the cumulated power reaches half of the total power
plot_power_spectrum_indicators_power_median(freqs_ml, psd_ml, freqs_ap, psd_ap) ==
    LET half(freqs, psd) ==
            freqs[CHOOSE i \in 1..Len(psd) :
                     /\ 2 * ArraySum(SubSeq(psd, 1, i)) >= ArraySum(psd)
                     /\ \A j \in 1..(i - 1) :
                           2 * ArraySum(SubSeq(psd, 1, j)) < ArraySum(psd)]
    IN  IF Len(psd_ml) = 0 \/ Len(psd_ap) = 0
        THEN [status |-> "raised"]
        ELSE [status |-> "ok",
              max_psd_ml |-> np_max(psd_ml),
              max_freq_ml |-> freqs_ml[np_argmax(psd_ml) + 1],
              max_psd_ap |-> np_max(psd_ap),
              max_freq_ap |-> freqs_ap[np_argmax(psd_ap) + 1],
              median_freq_ml |-> <<2 * half(freqs_ml, psd_ml), 2>>,
              median_freq_ap |-> <<2 * half(freqs_ap, psd_ap), 2>>]

\* the indicators plot_power_spectrum draws; np.max raises on an empty array
plot_power_spectrum_indicators(freqs_ml, psd_ml, freqs_ap, psd_ap) ==
    IF Len(psd_ml) = 0 \/ Len(psd_ap) = 0
    THEN [status |-> "raised"]
    ELSE [status |-> "ok",
          max_psd_ml |-> np_max(psd_ml),
          max_freq_ml |-> freqs_ml[np_argmax(psd_ml) + 1],
          max_psd_ap |-> np_max(psd_ap),
          max_freq_ap |-> freqs_ap[np_argmax(psd_ap) + 1],
          median_freq_ml |-> np_median(freqs_ml),
          median_freq_ap |-> np_median(freqs_ap)]

\* plt.plot(x, y) and plt.semilogy(x, y) raise when the lengths differ
plot_raises(x, y) == Len(x) # Len(y)

\* plt.gcf(): the current figure is the last one; without an open figure a
\* new one is created for the caller
gcf(t) == IF Len(figs) = 0 THEN <<[creator |-> t, artists |-> {}]>> ELSE figs

\* the figures after thread t has drawn on the current figure
Draw(t) ==
    [i \in 1..Len(gcf(t)) |->
        IF i = Len(gcf(t))
        THEN [gcf(t)[i] EXCEPT !.artists = @ \cup {t}] ELSE gcf(t)[i]]

\* plt.figure(): a new figure, which becomes the current one
figure(t) == Append(figs, [creator |-> t, artists |-> {}])

\* plt.close(): the current figure, if any, is closed
close == IF Len(figs) = 0 THEN <<>> ELSE SubSeq(figs, 1, Len(figs) - 1)

\* plot_stabilogram, line 250
StabFigure(t) ==
    /\ threads[t].pc = "idle"
    /\ Len(figs) < MaxFigures
    /\ \E trial \in StabTrials :
          threads' = [threads EXCEPT ![t] =
                         [pc |-> "ml", fn |-> "plot_stabilogram",
                          trial |-> trial, png |-> <<>>, svg |-> <<>>,
                          closed |-> <<>>]]
    /\ figs' = figure(t)
    /\ UNCHANGED <<cop_x, cop_y, call, prev, selector>>

\* plot_stabilogram, lines 253-267
StabPlotML(t) ==
    /\ threads[t].pc = "ml"
    /\ threads[t].fn = "plot_stabilogram"
    /\ figs' = Draw(t)
    /\ threads' = [threads EXCEPT ![t].pc =
                      IF \/ plot_raises(threads[t].trial.time,
                                        threads[t].trial.cop_x)
                         \/ Len(threads[t].trial.cop_x) = 0
                      THEN "raised" ELSE "ap"]
    /\ UNCHANGED <<cop_x, cop_y, call, prev, selector>>

\* plot_stabilogram, lines 270-284
StabPlotAP(t) ==
    /\ threads[t].pc = "ap"
    /\ threads[t].fn = "plot_stabilogram"
    /\ figs' = Draw(t)
    /\ threads' = [threads EXCEPT ![t].pc =
                      IF \/ plot_raises(threads[t].trial.time,
                                        threads[t].trial.cop_y)
                         \/ Len(threads[t].trial.cop_y) = 0
                      THEN "raised" ELSE "png"]
    /\ UNCHANGED <<cop_x, cop_y, call, prev, selector>>

\* plt.savefig of the .png: the current figure is written, or the call fails
SavePng(t) ==
    /\ threads[t].pc = "png"
    /\ figs' = gcf(t)
    /\ \E written \in BOOLEAN :
          threads' = [threads EXCEPT ![t] =
                         IF written
                         THEN [@ EXCEPT !.pc = "svg",
                                 !.png = <<gcf(t)[Len(gcf(t))].artists>>]
                         ELSE [@ EXCEPT !.pc = "raised"]]
    /\ UNCHANGED <<cop_x, cop_y, call, prev, selector>>

\* plt.savefig of the .svg
SaveSvg(t) ==
    /\ threads[t].pc = "svg"
    /\ figs' = gcf(t)
    /\ \E written \in BOOLEAN :
          threads' = [threads EXCEPT ![t] =
                         IF written
                         THEN [@ EXCEPT !.pc = "close",
                                 !.svg = <<gcf(t)[Len(gcf(t))].artists>>]
                         ELSE [@ EXCEPT !.pc = "raised"]]
    /\ UNCHANGED <<cop_x, cop_y, call, prev, selector>>

\* plt.close(), after which the call returns
Close(t) ==
    /\ threads[t].pc = "close"
    /\ figs' = close
    /\ threads' = [threads EXCEPT ![t] =
                      [@ EXCEPT !.pc = "returned",
                              !.closed = IF Len(figs) = 0 THEN <<>>
                                         ELSE <<figs[Len(figs)].creator>>]]
    /\ UNCHANGED <<cop_x, cop_y, call, prev, selector>>

\* plot_stabilogram, lines 286-287, line 288 and line 289
StabSavePng(t) ==
    threads[t].pc = "png" /\ threads[t].fn = "plot_stabilogram" /\ SavePng(t)
StabSaveSvg(t) ==
    threads[t].pc = "svg" /\ threads[t].fn = "plot_stabilogram" /\ SaveSvg(t)
StabClose(t) ==
    threads[t].pc = "close" /\ threads[t].fn = "plot_stabilogram" /\ Close(t)

\* plot_power_spectrum, line 308
PsdFigure(t) ==
    /\ threads[t].pc = "idle"
    /\ Len(figs) < MaxFigures
    /\ \E spectra \in PsdTrials :
          threads' = [threads EXCEPT ![t] =
                         [pc |-> "semilogy", fn |-> "plot_power_spectrum",
                          spectra |-> spectra, png |-> <<>>, svg |-> <<>>,
                          closed |-> <<>>]]
    /\ figs' = figure(t)
    /\ UNCHANGED <<cop_x, cop_y, call, prev, selector>>

\* plot_power_spectrum, lines 309-314
PsdSemilogy(t) ==
    /\ threads[t].pc = "semilogy"
    /\ figs' = Draw(t)
    /\ threads' = [threads EXCEPT ![t].pc =
                      IF \/ plot_raises(threads[t].spectra.freqs_ml,
                                        threads[t].spectra.psd_ml)
                         \/ plot_raises(threads[t].spectra.freqs_ap,
                                        threads[t].spectra.psd_ap)
                      THEN "raised" ELSE "indicators"]
    /\ UNCHANGED <<cop_x, cop_y, call, prev, selector>>

\* plot_power_spectrum, lines 316-356
PsdIndicators(t) ==
    /\ threads[t].pc = "indicators"
    /\ LET s == threads[t].spectra
           r == plot_power_spectrum_indicators(s.freqs_ml, s.psd_ml,
                                               s.freqs_ap, s.psd_ap)
       IN  IF r.status = "raised"
           THEN /\ figs' = figs
                /\ threads' = [threads EXCEPT ![t].pc = "raised"]
           ELSE /\ figs' = Draw(t)
                /\ threads' = [threads EXCEPT ![t] =
                      [pc |-> "png", fn |-> "plot_power_spectrum",
                       spectra |-> s, png |-> <<>>, svg |-> <<>>,
                       closed |-> <<>>, indicators |-> r]]
    /\ UNCHANGED <<cop_x, cop_y, call, prev, selector>>

\* plot_power_spectrum, line 357, line 358 and line 359
PsdSavePng(t) ==
    threads[t].pc = "png" /\ threads[t].fn = "plot_power_spectrum" /\ SavePng(t)
PsdSaveSvg(t) ==
    threads[t].pc = "svg" /\ threads[t].fn = "plot_power_spectrum" /\ SaveSvg(t)
PsdClose(t) ==
    threads[t].pc = "close" /\ threads[t].fn = "plot_power_spectrum" /\ Close(t)

\* the plot call of thread t has ended: its caller takes the result or the
\* exception; what the call left behind belongs to an earlier call from now on
Earlier(t, who) == IF who = t THEN "earlier" ELSE who
PlotReturn(t) ==
    /\ threads[t].pc \in {"returned", "raised"}
    /\ threads' = [threads EXCEPT ![t] = [pc |-> "idle"]]
    /\ figs' = [i \in 1..Len(figs) |->
                   [creator |-> Earlier(t, figs[i].creator),
                    artists |-> {Earlier(t, a) : a \in figs[i].artists}]]
    /\ UNCHANGED <<cop_x, cop_y, call, prev, selector>>

InitPlot ==
    /\ cop_x = <<>>
    /\ cop_y = <<>>
    /\ call = NoCall
    /\ prev = NoCall
    /\ figs = <<>>
    /\ threads = NoThreads
    /\ selector = NoSelector

NextPlot ==
    \E t \in Threads :
        \/ StabFigure(t)
        \/ StabPlotML(t)
        \/ StabPlotAP(t)
        \/ StabSavePng(t)
        \/ StabSaveSvg(t)
        \/ StabClose(t)
        \/ PsdFigure(t)
        \/ PsdSemilogy(t)
        \/ PsdIndicators(t)
        \/ PsdSavePng(t)
        \/ PsdSaveSvg(t)
        \/ PsdClose(t)
        \/ PlotReturn(t)

SpecPlot == InitPlot /\ [][NextPlot]_vars

\* ------------------------------------------- the spectral estimator
\* the trials whose spectrum is estimated include two long ones
InitSpectrum ==
    /\ \E tr \in Trajectories \cup Mismatched \cup LongTrajectories :
          cop_x = tr[1] /\ cop_y = tr[2]
    /\ call = NoCall
    /\ prev = NoCall
    /\ figs = <<>>
    /\ threads = NoThreads
    /\ selector = NoSelector

NextSpectrum ==
    \/ ComputePowerSpectrum
    \/ Return

SpecSpectrum == InitSpectrum /\ [][NextSpectrum]_vars

\* ------------------------------------------------ repeated analyses
\* the trials a caller analyses repeatedly
RepeatedTrials ==
    {<<ScenarioX, ScenarioY>>, <<PlateauX, Reversed(PlateauX)>>,
     <<TenX, Alternating(Len(TenX))>>}

InitRepeat ==
    /\ \E tr \in RepeatedTrials : cop_x = tr[1] /\ cop_y = tr[2]
    /\ call = NoCall
    /\ prev = NoCall
    /\ figs = <<>>
    /\ threads = NoThreads
    /\ selector = NoSelector

\* the caller takes the result of the call and keeps it, or keeps the
\* result of an earlier call, for comparison with the calls that follow
ReturnRepeat ==
    /\ ~Idle
    /\ call' = NoCall
    /\ prev' \in {call, prev}
    /\ UNCHANGED <<cop_x, cop_y, figs, threads, selector>>

NextRepeat ==
    \/ ComputeRms
    \/ ComputeSpeed
    \/ ComputePowerSpectrum
    \/ ComputeMsd
    \/ CountZeroCrossings
    \/ CountPeaks
    \/ ComputeSwayDensity
    \/ ComputeSwayDensity2D
    \/ ComputeTotalPathLength
    \/ ReturnRepeat

SpecRepeat == InitRepeat /\ [][NextRepeat]_vars

\* ------------------------------------------------------ video resizing
\* frame sizes (width, height) of the input video
FrameSizes == {<<width, height>> : width \in 2..MaxFrame, height \in 2..MaxFrame}

\* scale factors (validated integers >= 1)
ScaleFactors == 1..MaxScale

\* regions of interest (x, y, w, h), some partly outside the frame
Rois ==
    {<<x, y, w, h>> : x \in (-1)..(MaxFrame - 1), y \in (-1)..(MaxFrame - 1),
                      w \in 1..MaxFrame, h \in 1..MaxFrame}

\* a quotient <<n, d>> (d > 0) in lowest terms; nan is <<0, 0>>
Norm(q) ==
    IF q[2] = 0 THEN q
    ELSE <<q[1] \div Gcd(Abs(q[1]), q[2]), q[2] \div Gcd(Abs(q[1]), q[2])>>

\* the metadata resize_with_opencv builds, without the file names, the frame
\* rate and the frame count
resize_metadata(width, height, scale_factor, roi) ==
    IF roi # <<>>
    THEN [original_width |-> width, original_height |-> height,
          scale_factor |-> scale_factor,
          crop |-> [x |-> roi[1], y |-> roi[2], width |-> roi[3],
                    height |-> roi[4]],
          crop_applied |-> TRUE,
          output_width |-> roi[3] * scale_factor,
          output_height |-> roi[4] * scale_factor]
    ELSE [original_width |-> width, original_height |-> height,
          scale_factor |-> scale_factor,
          crop_applied |-> FALSE,
          output_width |-> width * scale_factor,
          output_height |-> height * scale_factor]

\* the region of each frame that is resized to the output size: the ROI
\* clamped to the frame, or the whole frame
frame_crop(width, height, roi) ==
    IF roi # <<>>
    THEN LET x == Max(0, Min(roi[1], width - 1))
             y == Max(0, Min(roi[2], height - 1))
             w == Min(roi[3], width - x)
             h == Min(roi[4], height - y)
         IN  [x |-> x, y |-> y, w |-> w, h |-> h]
    ELSE [x |-> 0, y |-> 0, w |-> width, h |-> height]

\* cv2.resize of the cropped frame to (new_width, new_height): where the
\* point p of the original frame is shown in the processed frame
resized_position(p, origin, size, new_size) ==
    Norm(<<(p - origin) * new_size, size>>)

\* convert_coordinates on quotients x, y
convert_coordinates(x, y, metadata) ==
    IF ~metadata.crop_applied
    THEN <<Norm(<<x[1], x[2] * metadata.scale_factor>>),
           Norm(<<y[1], y[2] * metadata.scale_factor>>)>>
    ELSE <<Norm(<<x[1] + metadata.crop.x * metadata.scale_factor * x[2],
                  x[2] * metadata.scale_factor>>),
           Norm(<<y[1] + metadata.crop.y * metadata.scale_factor * y[2],
                  y[2] * metadata.scale_factor>>)>>

\* resize_with_opencv on a video of at least one frame; a video that cannot
\* be opened gives None
ResizeWithOpencv ==
    /\ Idle
    /\ \E size \in FrameSizes, scale_factor \in ScaleFactors,
          roi \in Rois \cup {<<>>}, opened \in BOOLEAN :
          call' = IF opened
                  THEN [op |-> "resize_with_opencv", status |-> "ok",
                        metadata |-> resize_metadata(size[1], size[2],
                                                     scale_factor, roi),
                        cropped |-> frame_crop(size[1], size[2], roi)]
                  ELSE [op |-> "resize_with_opencv", status |-> "None"]
    /\ UNCHANGED <<cop_x, cop_y, prev, figs, threads, selector>>

\* a point (px, py) of the original frame that is visible in the processed
\* video is located there at (X, Y) and converted back with the metadata
ConvertCoordinates ==
    /\ call.op = "resize_with_opencv"
    /\ call.status = "ok"
    /\ \E px \in call.cropped.x..(call.cropped.x + call.cropped.w - 1),
          py \in call.cropped.y..(call.cropped.y + call.cropped.h - 1) :
          LET X == resized_position(px, call.cropped.x, call.cropped.w,
                                    call.metadata.output_width)
              Y == resized_position(py, call.cropped.y, call.cropped.h,
                                    call.metadata.output_height)
          IN  call' = [op |-> "convert_coordinates", status |-> "ok",
                       meta |-> call.metadata, pixel |-> <<px, py>>,
                       processed |-> <<X, Y>>,
                       original |-> convert_coordinates(X, Y, call.metadata)]
    /\ UNCHANGED <<cop_x, cop_y, prev, figs, threads, selector>>

\* a DataFrame is the sequence of its columns, each a name (a sequence of
\* characters) and one cell per row; a cell is a quotient, NaN is <<0, 0>>
NaN == <<0, 0>>
Cells == {NaN} \cup {<<n, 1>> : n \in 0..MaxCoord}

\* the column names of a MediaPipe table, a YOLO table and a vaila table
ColumnLayouts ==
    {<<<<"f">>, <<"n", "_", "x">>, <<"n", "_", "y">>>>,
     <<<<"I", "D", "_", "1">>, <<"X", "_", "1">>, <<"Y", "_", "1">>>>,
     <<<<"f">>, <<"p", "X">>, <<"p", "Y">>>>}

\* tables of two rows: an identifying column and one coordinate pair whose
\* first row varies
DataFrames ==
    {<<[name |-> layout[1], values |-> <<<<1, 1>>, <<1, 1>>>>],
       [name |-> layout[2], values |-> <<x, <<MaxCoord, 1>>>>],
       [name |-> layout[3], values |-> <<y, <<0, 1>>>>]>> :
        layout \in ColumnLayouts, x \in Cells, y \in Cells}

\* the metadata files the tables are converted with
Metadatas ==
    {resize_metadata(MaxFrame, MaxFrame, scale_factor, roi) :
        scale_factor \in ScaleFactors, roi \in {<<>>, <<1, 1, 2, 2>>}}

FormatTypes == {"mediapipe", "yolo", "vaila", "openpose"}

\* str.endswith, str.startswith
endswith(col, suffix) ==
    /\ Len(col) >= Len(suffix)
    /\ SubSeq(col, Len(col) - Len(suffix) + 1, Len(col)) = suffix
startswith(col, prefix) ==
    /\ Len(col) >= Len(prefix)
    /\ SubSeq(col, 1, Len(prefix)) = prefix

\* str.replace(old, new) for a non-empty old
RECURSIVE replace(_, _, _)
replace(col, old, new) ==
    IF Len(col) = 0 THEN <<>>
    ELSE IF startswith(col, old)
         THEN new \o replace(SubSeq(col, Len(old) + 1, Len(col)), old, new)
         ELSE <<Head(col)>> \o replace(Tail(col), old, new)

\* str.lower on the characters of the column names
lower(col) ==
    [i \in 1..Len(col) |->
        IF col[i] = "X" THEN "x" ELSE IF col[i] = "Y" THEN "y"
        ELSE IF col[i] = "I" THEN "i" ELSE IF col[i] = "D" THEN "d"
        ELSE col[i]]

\* the characters of col before the first "_"
RECURSIVE before_sep(_)
before_sep(col) ==
    IF Len(col) = 0 \/ Head(col) = "_" THEN <<>>
    ELSE <<Head(col)>> \o before_sep(Tail(col))

\* col.split("_")[1] of a name that contains "_"
split_1(col) ==
    before_sep(SubSeq(col, Len(before_sep(col)) + 2, Len(col)))

columns(df) == [i \in 1..Len(df) |-> df[i].name]
has_column(df, col) == \E i \in 1..Len(df) : df[i].name = col
column_index(df, col) == CHOOSE i \in 1..Len(df) : df[i].name = col

\* the (x_col, y_col) pairs the MediaPipe branch converts, in order
mediapipe_pairs(df) ==
    LET is_x(col) == /\ endswith(col, <<"_", "x">>) \/ endswith(col, <<"_", "y">>)
                     /\ endswith(col, <<"_", "x">>)
                     /\ has_column(df, replace(col, <<"_", "x">>, <<"_", "y">>))
        x_cols == SelectSeq(columns(df), is_x)
    IN  [i \in 1..Len(x_cols) |->
            <<x_cols[i], replace(x_cols[i], <<"_", "x">>, <<"_", "y">>)>>]

\* the pairs the YOLO branch converts
yolo_pairs(df) ==
    LET is_id(col) == startswith(col, <<"I", "D", "_">>)
        id_cols == SelectSeq(columns(df), is_id)
        person_ids == [i \in 1..Len(id_cols) |-> split_1(id_cols[i])]
        present(pid) == /\ has_column(df, <<"X", "_">> \o pid)
                        /\ has_column(df, <<"Y", "_">> \o pid)
        pids == SelectSeq(person_ids, present)
    IN  [i \in 1..Len(pids) |-> <<<<"X", "_">> \o pids[i], <<"Y", "_">> \o pids[i]>>]

\* the pairs the vaila branch converts
vaila_pairs(df) ==
    LET base(x_col) == SubSeq(x_col, 1, Len(x_col) - 1)
        is_x(col) == /\ endswith(lower(col), <<"x">>)
                     /\ \/ has_column(df, base(col) \o <<"y">>)
                        \/ has_column(df, base(col) \o <<"Y">>)
        x_cols == SelectSeq(columns(df), is_x)
    IN  [i \in 1..Len(x_cols) |->
            <<x_cols[i],
              IF has_column(df, base(x_cols[i]) \o <<"y">>)
              THEN base(x_cols[i]) \o <<"y">> ELSE base(x_cols[i]) \o <<"Y">>>>]

\* the loop over df.iterrows() for one pair: the rows of converted_df whose
\* two cells in df are not NaN get the converted coordinates
convert_pair(df, converted_df, pair, metadata) ==
    LET xi == column_index(df, pair[1])
        yi == column_index(df, pair[2])
        orig(idx) == convert_coordinates(df[xi].values[idx],
                                         df[yi].values[idx], metadata)
        notna(idx) == df[xi].values[idx] # NaN /\ df[yi].values[idx] # NaN
    IN  [i \in 1..Len(converted_df) |->
            [name |-> converted_df[i].name,
             values |-> [idx \in 1..Len(converted_df[i].values) |->
                            IF notna(idx) /\ i = yi THEN orig(idx)[2]
                            ELSE IF notna(idx) /\ i = xi THEN orig(idx)[1]
                            ELSE converted_df[i].values[idx]]]]

RECURSIVE convert_pairs(_, _, _, _)
convert_pairs(df, converted_df, pairs, metadata) ==
    IF Len(pairs) = 0 THEN converted_df
    ELSE convert_pairs(df, convert_pair(df, converted_df, Head(pairs), metadata),
                       Tail(pairs), metadata)

\* convert_coordinates_by_format: the table it returns
convert_coordinates_by_format(df, metadata, format_type) ==
    LET converted_df == df
    IN  IF format_type = "mediapipe"
        THEN convert_pairs(df, converted_df, mediapipe_pairs(df), metadata)
        ELSE IF format_type = "yolo"
        THEN convert_pairs(df, converted_df, yolo_pairs(df), metadata)
        ELSE IF format_type = "vaila"
        THEN convert_pairs(df, converted_df, vaila_pairs(df), metadata)
        ELSE converted_df

\* convert_coordinates_by_format; df_after is the caller's table after the call
ConvertCoordinatesByFormat ==
    /\ Idle
    /\ \E df \in DataFrames, metadata \in Metadatas, format_type \in FormatTypes :
          call' = [op |-> "convert_coordinates_by_format", status |-> "ok",
                   df |-> df, meta |-> metadata, format_type |-> format_type,
                   df_after |-> df,
                   converted_df |->
                       convert_coordinates_by_format(df, metadata, format_type)]
    /\ UNCHANGED <<cop_x, cop_y, prev, figs, threads, selector>>

InitResize ==
    /\ cop_x = <<>>
    /\ cop_y = <<>>
    /\ call = NoCall
    /\ prev = NoCall
    /\ figs = <<>>
    /\ threads = NoThreads
    /\ selector = NoSelector

NextResize ==
    \/ ResizeWithOpencv
    \/ ConvertCoordinates
    \/ ConvertCoordinatesByFormat
    \/ Return

SpecResize == InitResize /\ [][NextResize]_vars

\* ------------------------------------------------------- ROI selection
\* the largest frame that is displayed unscaled
max_display_width == 1280
max_display_height == 720

\* frame sizes (width, height) of the video: one displayed as it is, one
\* displayed at half size and one at two thirds
VideoSizes ==
    {<<MaxMouse + 2, MaxMouse + 1>>,
     <<2 * max_display_width, 2 * max_display_height>>,
     <<max_display_width + max_display_width \div 2, max_display_height>>}

\* positions of the mouse in the window
MousePositions == (0..MaxMouse) \X (0..MaxMouse)

\* self.scale as a quotient
display_scale(width, height) ==
    IF width > max_display_width \/ height > max_display_height
    THEN IF max_display_width * height <= max_display_height * width
         THEN Norm(<<max_display_width, width>>)
         ELSE Norm(<<max_display_height, height>>)
    ELSE <<1, 1>>

\* int(v / self.scale)
unscale(v, scale) == PyInt(v * scale[2], scale[1])

\* ROISelector(video_path).select_roi() up to the event loop; a video that
\* cannot be read gives None
SelectRoi ==
    /\ Idle
    /\ selector = NoSelector
    /\ \/ /\ call' = [op |-> "select_roi", status |-> "returned",
                      key |-> "none", result |-> <<>>]
          /\ selector' = [state |-> "constructed", roi |-> <<>>,
                          roi_selected |-> FALSE, drawing |-> FALSE,
                          ix |-> -1, iy |-> -1, scale |-> <<1, 1>>]
       \/ \E size \in VideoSizes :
             /\ call' = [op |-> "select_roi", status |-> "loop",
                         key |-> "none", result |-> <<>>,
                         width |-> size[1], height |-> size[2],
                         shown |-> "frame", last_valid |-> <<>>]
             /\ selector' = [state |-> "constructed", roi |-> <<>>,
                             roi_selected |-> FALSE, drawing |-> FALSE,
                             ix |-> -1, iy |-> -1,
                             scale |-> display_scale(size[1], size[2])]
    /\ UNCHANGED <<cop_x, cop_y, prev, figs, threads>>

\* draw_rectangle(cv2.EVENT_LBUTTONDOWN, x, y, ..)
ButtonDown ==
    /\ call.op = "select_roi"
    /\ call.status = "loop"
    /\ \E pos \in MousePositions :
          selector' = [selector EXCEPT !.drawing = TRUE,
                                       !.ix = pos[1], !.iy = pos[2]]
    /\ UNCHANGED <<cop_x, cop_y, call, prev, figs, threads>>

\* draw_rectangle(cv2.EVENT_MOUSEMOVE, x, y, ..): the rectangle from
\* (ix, iy) to the mouse is shown while the button is down; shown tells what
\* the window shows on top of the frame
MouseMove ==
    /\ call.op = "select_roi"
    /\ call.status = "loop"
    /\ \E pos \in MousePositions :
          call' = IF selector.drawing
                  THEN [call EXCEPT !.shown = "rubber band"]
                  ELSE call
    /\ UNCHANGED <<cop_x, cop_y, prev, figs, threads, selector>>

\* draw_rectangle(cv2.EVENT_LBUTTONUP, x, y, ..); last_valid remembers the
\* rectangle of width and height > 0 completed last
ButtonUp ==
    /\ call.op = "select_roi"
    /\ call.status = "loop"
    /\ \E pos \in MousePositions :
          LET roi_x == Min(selector.ix, pos[1])
              roi_y == Min(selector.iy, pos[2])
              roi_w == Abs(pos[1] - selector.ix)
              roi_h == Abs(pos[2] - selector.iy)
          IN  IF roi_w > 0 /\ roi_h > 0
              THEN /\ selector' = [selector EXCEPT
                                      !.drawing = FALSE,
                                      !.roi = <<roi_x, roi_y, roi_w, roi_h>>,
                                      !.roi_selected = TRUE]
                   /\ call' = [call EXCEPT
                                  !.shown = "rectangle",
                                  !.last_valid = <<roi_x, roi_y, roi_w, roi_h>>]
              ELSE /\ selector' = [selector EXCEPT !.drawing = FALSE]
                   /\ call' = call
    /\ UNCHANGED <<cop_x, cop_y, prev, figs, threads>>

\* cv2.waitKey returns 13 (Enter)
KeyEnter ==
    /\ call.op = "select_roi"
    /\ call.status = "loop"
    /\ IF selector.roi_selected /\ selector.roi # <<>>
       THEN LET roi == [i \in 1..4 |-> unscale(selector.roi[i], selector.scale)]
            IN  /\ selector' = [selector EXCEPT !.roi = roi]
                /\ call' = [call EXCEPT !.status = "returned", !.key = "Enter",
                                        !.result = roi]
       ELSE UNCHANGED <<call, selector>>
    /\ UNCHANGED <<cop_x, cop_y, prev, figs, threads>>

\* cv2.waitKey returns 27 (ESC)
KeyEsc ==
    /\ call.op = "select_roi"
    /\ call.status = "loop"
    /\ selector' = [selector EXCEPT !.roi = <<>>]
    /\ call' = [call EXCEPT !.status = "returned", !.key = "Esc",
                            !.result = <<>>]
    /\ UNCHANGED <<cop_x, cop_y, prev, figs, threads>>

\* the caller takes the ROI; the selector is not used again
SelectRoiReturn ==
    /\ call.op = "select_roi"
    /\ call.status = "returned"
    /\ call' = NoCall
    /\ selector' = NoSelector
    /\ UNCHANGED <<cop_x, cop_y, prev, figs, threads>>

InitRoi ==
    /\ cop_x = <<>>
    /\ cop_y = <<>>
    /\ call = NoCall
    /\ prev = NoCall
    /\ figs = <<>>
    /\ threads = NoThreads
    /\ selector = NoSelector

NextRoi ==
    \/ SelectRoi
    \/ ButtonDown
    \/ MouseMove
    \/ ButtonUp
    \/ KeyEnter
    \/ KeyEsc
    \/ SelectRoiReturn

SpecRoi == InitRoi /\ [][NextRoi]_vars

\* ---------------------------------------------------------------- claims
\* the real number n as a value of Sqrt/SurdSum
Real(n) == IF n = 0 THEN EmptyBag ELSE [m \in {1} |-> n]

\* C1: count_zero_crossings(signal) is the number of indices i in 0..N-2 with
\* signal[i]*signal[i+1] < 0, which is the number of adjacent pairs of strictly
\* opposite sign: a sample equal to 0 never registers a crossing with either
\* neighbour, and [1,0,-1] counts 0.
C1_ZeroCrossingsStrict ==
    call.op = "count_zero_crossings" =>
        LET s == call.signal
            N == Len(s)
            at(i) == s[i + 1]      \* 0-indexed access
        IN  /\ call.status = "ok"
            /\ call.value =
                 Cardinality({i \in 0..(N - 2) : at(i) * at(i + 1) < 0})
            /\ call.value =
                 Cardinality({i \in 0..(N - 2) :
                                \/ at(i) > 0 /\ at(i + 1) < 0
                                \/ at(i) < 0 /\ at(i + 1) > 0})
            /\ call.value <=
                 Cardinality({i \in 0..(N - 2) : at(i) # 0 /\ at(i + 1) # 0})
            /\ (s = <<1, 0, -1>> => call.value = 0)

C1_Witness ==
    /\ call.op = "count_zero_crossings"
    /\ call.signal = <<1, 0, -1>>
    /\ call.value = 0

\* C2 (as stated): for cop_x = [0,1,0,-1,0,1,0,-1], count_zero_crossings
\* returns 6.
C2_ScenarioSix ==
    (call.op = "count_zero_crossings" /\ call.signal = ScenarioX) => call.value = 6

\* C2 (amended): for cop_x = [0,1,0,-1,0,1,0,-1], count_zero_crossings returns
\* 0, every product of consecutive samples being exactly 0.
C2_ScenarioZero ==
    (call.op = "count_zero_crossings" /\ call.signal = ScenarioX) => call.value = 0

C2_Witness ==
    /\ call.op = "count_zero_crossings"
    /\ call.signal = ScenarioX
    /\ call.status = "ok"

\* C3 (as stated): for cop_x = [0,1,0,-1,0,1,0,-1] and cop_y all zero,
\* compute_total_path_length returns 8.0.
C3_ScenarioEight ==
    (call.op = "compute_total_path_length" /\ cop_x = ScenarioX /\ cop_y = ScenarioY)
        => call.value = Real(8)

\* C3 (amended): for cop_x = [0,1,0,-1,0,1,0,-1] and cop_y all zero,
\* compute_total_path_length returns 7.0, the sum of the Euclidean distances
\* between the eight consecutive points (seven unit steps).
C3_ScenarioSeven ==
    (call.op = "compute_total_path_length" /\ cop_x = ScenarioX /\ cop_y = ScenarioY)
        => call.value = Real(7)

C3_Witness ==
    /\ call.op = "compute_total_path_length"
    /\ cop_x = ScenarioX
    /\ cop_y = ScenarioY
    /\ call.status = "ok"

\* round(num/den) to the nearest integer, a tie going to the even neighbour
\* as Python's round does
PyRound(num, den) ==
    LET q == num \div den
        r == num % den
    IN  IF 2 * r < den THEN q
        ELSE IF 2 * r > den THEN q + 1
        ELSE IF q % 2 = 0 THEN q ELSE q + 1

\* C4 (as stated): compute_msd uses the lag delta_n = round(delta_t * fs), the
\* product rounded to the nearest integer (2.6 gives 3, 0.6 gives 1).
C4_LagIsRounded ==
    call.op = "compute_msd" => call.delta_n = PyRound(call.dt10 * call.fs, 10)

\* C5 (as stated): for a series of length N >= 2, compute_msd raises if the
\* computed lag delta_n >= N and otherwise (delta_n < N, a lag of 0 included)
\* returns a numeric value without raising.
C5_RaisesIffLagExceeds ==
    (call.op = "compute_msd" /\ Len(call.signal) >= 2) =>
        /\ call.delta_n >= Len(call.signal) => call.status = "raised"
        /\ call.delta_n < Len(call.signal) =>
               call.status = "ok" /\ call.value[2] > 0

\* sum of (S[i+delta_n] - S[i])^2 over the 0-indexed i = 0..last
RECURSIVE SumSquaredDisplacements(_, _, _)
SumSquaredDisplacements(S, delta_n, last) ==
    IF last < 0 THEN 0
    ELSE (S[last + delta_n + 1] - S[last + 1]) * (S[last + delta_n + 1] - S[last + 1])
           + SumSquaredDisplacements(S, delta_n, last - 1)

\* C6: whenever compute_msd returns for a lag 1 <= delta_n < N, the result is
\* the mean of (S[i+delta_n] - S[i])^2 over i = 0..N-delta_n-1, exactly
\* N - delta_n terms of S as given, and is non-negative.
C6_MsdIsMeanSquaredDisplacement ==
    (/\ call.op = "compute_msd"
     /\ call.status = "ok"
     /\ 1 <= call.delta_n
     /\ call.delta_n < Len(call.signal)) =>
        LET S == call.signal
            N == Len(S)
        IN  /\ call.value[2] = N - call.delta_n
            /\ call.value[1] = SumSquaredDisplacements(S, call.delta_n,
                                                       N - call.delta_n - 1)
            /\ call.value[1] >= 0

C6_Witness ==
    /\ call.op = "compute_msd"
    /\ call.status = "ok"
    /\ call.signal = <<1, 0, -1>>
    /\ call.delta_n = 2
    /\ call.value = <<4, 1>>

\* the largest odd value <= n
LargestOddUpTo(n) == CHOOSE k \in 1..n : k % 2 = 1 /\ k + 2 > n

\* the effective window as the specification words it
EffectiveWindow(w, N) ==
    LET odd == IF w % 2 = 0 THEN w + 1 ELSE w
    IN  IF odd > LargestOddUpTo(N - 1) THEN LargestOddUpTo(N - 1) ELSE odd

\* C7: for window_length w >= 1 and N >= 2, compute_speed increments an even w
\* by one and clamps a w larger than the series supports to the largest odd
\* value <= N-1; the effective window is odd and <= N-1, and window_length 100
\* on a series of length 10 uses window 9 and (default polyorder) does not raise.
C7_WindowClamping ==
    (/\ call.op = "compute_speed"
     /\ call.window_length >= 1
     /\ Len(cop_x) >= 2) =>
        /\ call.window = EffectiveWindow(call.window_length, Len(cop_x))
        /\ call.window % 2 = 1
        /\ call.window <= Len(cop_x) - 1
        /\ (Len(cop_x) = 10 /\ call.window_length = 100) =>
               /\ call.window = 9
               /\ call.polyorder = 3 => call.status = "ok"

C7_Witness ==
    /\ call.op = "compute_speed"
    /\ Len(cop_x) = 10
    /\ call.window_length = 100
    /\ call.polyorder = 3
    /\ call.window = 9
    /\ call.status = "ok"

\* C8 (as stated): compute_speed raises whenever polyorder >= the effective
\* window length, and whenever N < 3 (polyorder 0 on a series of length 2
\* included).
C8_RaisesOnShortOrOrder ==
    (/\ call.op = "compute_speed"
     /\ \/ call.polyorder >= call.window
        \/ Len(cop_x) < 3) => call.status = "raised"

\* the samples of S are pairwise farther apart than radius
PairwiseFar(S, radius) ==
    \A i, j \in 1..Len(S) : i # j => Abs(S[i] - S[j]) > radius

\* C9 (as stated): sway density at t is the fraction of the OTHER samples
\* within radius of S[t], sample t itself not counted, so a series whose
\* samples are pairwise farther apart than radius has sway density 0 at
\* every index.
C9_SelfNotCounted ==
    (call.op = "compute_sway_density" /\ call.ndim = 1) =>
        LET S == call.signal
        IN  \A t \in 1..Len(S) :
               /\ call.value[t][1] =
                    Cardinality({i \in 1..Len(S) \ {t} :
                                    Abs(S[i] - S[t]) <= call.radius})
               /\ PairwiseFar(S, call.radius) => call.value[t][1] = 0

\* C9 (amended): sway density at t is the fraction, out of all N samples, of
\* the samples within radius of S[t], sample t itself included; with a
\* radius >= 0 a series whose samples are pairwise farther apart than radius
\* has sway density 1/N at every index.
C9_SelfCounted ==
    (call.op = "compute_sway_density" /\ call.ndim = 1) =>
        LET S == call.signal
        IN  \A t \in 1..Len(S) :
               /\ call.value[t][2] = Len(S)
               /\ call.value[t][1] =
                    Cardinality({i \in 1..Len(S) :
                                    Abs(S[i] - S[t]) <= call.radius})
               /\ (PairwiseFar(S, call.radius) /\ call.radius >= 0) =>
                      call.value[t][1] = 1

C9_Witness ==
    /\ call.op = "compute_sway_density"
    /\ call.ndim = 1
    /\ call.signal = <<-1, 1>>
    /\ call.radius = 1
    /\ PairwiseFar(call.signal, call.radius)
    /\ call.value = <<<<1, 2>>, <<1, 2>>>>

\* C10 (as stated): every value returned by compute_sway_density lies in
\* [0, 1], for every radius, for a 1-D series and for a 2-D (N x k) array.
C10_DensityInUnitInterval ==
    call.op = "compute_sway_density" =>
        \A t \in 1..Len(call.value) :
            /\ call.value[t][2] > 0
            /\ 0 <= call.value[t][1]
            /\ call.value[t][1] <= call.value[t][2]

\* C11: for fixed data, sway density is monotone in the radius: for r1 <= r2
\* and every index t, the density at t with radius r1 is <= the density at t
\* with radius r2.
C11_MonotoneInRadius ==
    (call.op = "compute_sway_density x2" /\ call.r1 <= call.r2) =>
        /\ Len(call.value1) = Len(call.value2)
        /\ \A t \in 1..Len(call.value1) :
              call.value1[t][1] * call.value2[t][2]
                  <= call.value2[t][1] * call.value1[t][2]

C11_Witness ==
    /\ call.op = "compute_sway_density x2"
    /\ call.signal = <<-1, 1>>
    /\ call.r1 = 0
    /\ call.r2 = 2
    /\ call.value1 = <<<<1, 2>>, <<1, 2>>>>
    /\ call.value2 = <<<<2, 2>>, <<2, 2>>>>

\* the interior samples strictly greater than both immediate neighbours
\* (0-based indices)
StrictPeaks(s) ==
    {i \in 1..(Len(s) - 2) : s[i + 1] > s[i] /\ s[i + 1] > s[i + 2]}

\* the interior runs l..r of equal samples with a strictly lower sample
\* immediately before and after (0-based indices)
FlatPeaks(s) ==
    {lr \in (1..(Len(s) - 2)) \X (1..(Len(s) - 2)) :
        /\ lr[1] <= lr[2]
        /\ \A k \in lr[1]..lr[2] : s[k + 1] = s[lr[1] + 1]
        /\ s[lr[1]] < s[lr[1] + 1]
        /\ s[lr[2] + 2] < s[lr[1] + 1]}

\* C12 (as stated): count_peaks(signal) is the number of interior indices i
\* with signal[i] strictly greater than both neighbours; a flat-topped maximum
\* such as [0,1,1,0] contributes no peak; the first and last samples are never
\* peaks.
C12_StrictPeaksOnly ==
    call.op = "count_peaks" =>
        /\ call.value = Cardinality(StrictPeaks(call.signal))
        /\ call.signal = PlateauX => call.value = 0
        /\ \A k \in 1..Len(call.peaks) :
              call.peaks[k] # 0 /\ call.peaks[k] # Len(call.signal) - 1

\* C12 (amended): count_peaks(signal) is the number of interior local maxima,
\* a flat-topped maximum (a run of equal samples with a strictly lower sample on
\* either side) counting once: [0,1,1,0] contributes one peak; every sample
\* strictly greater than both neighbours is counted, and the first and last
\* samples are never peaks.
C12_FlatPeaksCounted ==
    call.op = "count_peaks" =>
        /\ call.value = Cardinality(FlatPeaks(call.signal))
        /\ call.value >= Cardinality(StrictPeaks(call.signal))
        /\ call.signal = PlateauX => call.value = 1
        /\ \A k \in 1..Len(call.peaks) :
              call.peaks[k] # 0 /\ call.peaks[k] # Len(call.signal) - 1

C12_Witness ==
    /\ call.op = "count_peaks"
    /\ call.signal = PlateauX
    /\ call.peaks = <<1>>
    /\ call.value = 1

\* sum of the squares of the samples s[1..n]
RECURSIVE SumOfSquares(_, _)
SumOfSquares(s, n) == IF n = 0 THEN 0 ELSE s[n] * s[n] + SumOfSquares(s, n - 1)

\* r = (a/b)*sqrt(m) is the non-negative root of sum(s^2)/N for a series s
\* of N >= 1 samples
IsRootMeanSquare(r, s) ==
    /\ r.coef[1] >= 0
    /\ r.coef[2] > 0
    /\ r.coef[1] * r.coef[1] * r.rad * Len(s)
           = r.coef[2] * r.coef[2] * SumOfSquares(s, Len(s))

\* every sample of s equals c
Constant(s, c) == \A i \in 1..Len(s) : s[i] = c

\* C13: compute_rms returns, independently for each axis, the square root of
\* the mean of the squares of the raw samples (no mean subtraction): it is
\* non-negative, a constant series of value c has RMS |c|, and for
\* cop_x = [0,1,0,-1,0,1,0,-1] the squared RMS is exactly 1/2.
C13_RmsOfRawSamples ==
    call.op = "compute_rms" =>
        /\ Len(cop_x) >= 1 =>
              /\ IsRootMeanSquare(call.rms.rms_ml, cop_x)
              /\ \A c \in Vals : Constant(cop_x, c) =>
                    call.rms.rms_ml = [coef |-> <<Abs(c), 1>>, rad |-> 1]
        /\ Len(cop_y) >= 1 =>
              /\ IsRootMeanSquare(call.rms.rms_ap, cop_y)
              /\ \A c \in Vals : Constant(cop_y, c) =>
                    call.rms.rms_ap = [coef |-> <<Abs(c), 1>>, rad |-> 1]
        /\ cop_x = ScenarioX =>
              2 * call.rms.rms_ml.coef[1] * call.rms.rms_ml.coef[1]
                    * call.rms.rms_ml.rad
                  = call.rms.rms_ml.coef[2] * call.rms.rms_ml.coef[2]

C13_Witness ==
    /\ call.op = "compute_rms"
    /\ cop_x = <<-1, -1, -1>>
    /\ cop_y = <<0, 0, 0>>
    /\ call.rms.rms_ml = [coef |-> <<1, 1>>, rad |-> 1]
    /\ call.rms.rms_ap = [coef |-> <<0, 1>>, rad |-> 1]

\* C14: path length is additive over concatenation: for trajectories A and B
\* of length >= 2, path_length(A ++ B) = path_length(A) + path_length(B)
\* + distance(last point of A, first point of B).
C14_AdditiveOverConcatenation ==
    (/\ call.op = "compute_total_path_length ++"
     /\ Len(cop_x) >= 2
     /\ Len(call.B[1]) >= 2) =>
        call.whole = (call.first (+) call.second) (+) call.join

C14_Witness ==
    /\ call.op = "compute_total_path_length ++"
    /\ cop_x = <<-1, 0, 1>>
    /\ cop_y = <<0, 0, 0>>
    /\ call.B = <<<<-1, 1>>, <<0, 0>>>>
    /\ call.join = Real(2)
    /\ call.whole = Real(6)

\* C15: path length is invariant under reversal: for a trajectory of length
\* >= 2, the path length of the two series both reversed in time equals the
\* path length of the original.
C15_InvariantUnderReversal ==
    (call.op = "compute_total_path_length reversed" /\ Len(cop_x) >= 2) =>
        call.backward = call.forward

C15_Witness ==
    /\ call.op = "compute_total_path_length reversed"
    /\ cop_x = <<0, 0, 1>>
    /\ cop_y = <<1, 0, 0>>
    /\ call.forward = [m \in {1} |-> 2]
    /\ call.backward = [m \in {1} |-> 2]

\* C16: per-sample outputs preserve length: whenever compute_speed returns,
\* each velocity series has the length of its input series (also after the
\* window was clamped or made odd), and compute_sway_density returns exactly N
\* values for an input of N samples.
C16_LengthPreserved ==
    /\ (call.op = "compute_speed" /\ call.status = "ok") =>
           call.value = <<Len(cop_x), Len(cop_y)>>
    /\ (call.op = "compute_sway_density" /\ call.ndim = 1) =>
           Len(call.value) = Len(call.signal)
    /\ (call.op = "compute_sway_density" /\ call.ndim = 2) =>
           Len(call.value) = Len(call.array)

C16_Witness ==
    /\ call.op = "compute_speed"
    /\ call.status = "ok"
    /\ cop_x = ScenarioX
    /\ call.window_length = 4
    /\ call.window = 5
    /\ call.value = <<8, 8>>

\* C17 (as stated): every analyzer that takes the two series (compute_rms,
\* compute_speed, compute_power_spectrum, compute_total_path_length) raises
\* whenever len(cop_x) != len(cop_y).
C17_MismatchedLengthsRaise ==
    (/\ call.op \in {"compute_rms", "compute_speed", "compute_power_spectrum",
                     "compute_total_path_length"}
     /\ Len(cop_x) # Len(cop_y)) => call.status = "raised"

\* C18 (as stated): compute_rms on empty input (N = 0) fails with an error
\* instead of returning a pair of values, and never returns a NaN result.
C18_RmsEmptyRaises ==
    call.op = "compute_rms" =>
        /\ (Len(cop_x) = 0 \/ Len(cop_y) = 0) => call.status = "raised"
        /\ call.status = "ok" =>
              /\ call.rms.rms_ml.coef[2] # 0
              /\ call.rms.rms_ap.coef[2] # 0

\* C19 (as stated): too-short inputs are rejected with an error:
\* count_zero_crossings raises for N < 2, count_peaks raises for N < 3 and
\* compute_total_path_length raises for N < 2.
C19_TooShortRaises ==
    /\ (call.op = "count_zero_crossings" /\ Len(call.signal) < 2) =>
           call.status = "raised"
    /\ (call.op = "count_peaks" /\ Len(call.signal) < 3) =>
           call.status = "raised"
    /\ (call.op = "compute_total_path_length"
           /\ Len(cop_x) < 2 /\ Len(cop_y) < 2) => call.status = "raised"

\* C20 (as stated): save_metrics_to_csv turns the label "RMS (cm²)" into the
\* column name "RMS_cm2", and no column name contains a space or any of the
\* characters ( ) ² · ³.
C20_NormalizedColumnNames ==
    call.op = "save_metrics_to_csv" =>
        /\ \A i \in 1..Len(call.metrics_dict) :
              call.metrics_dict[i][1] = RmsLabel =>
                  \E j \in 1..Len(call.header) :
                      call.header[j] = <<"R", "M", "S", "_", "c", "m", "2">>
        /\ \A j \in 1..Len(call.header) :
              \A n \in 1..Len(call.header[j]) :
                  call.header[j][n] \notin {" ", "(", ")", "²", "·", "³"}

\* C21 (as stated): save_metrics_to_csv writes one header row and one data
\* row with exactly one column per entry of the mapping, in the mapping's
\* iteration order, each holding that entry's value; no metric is lost or
\* overwritten, also when two distinct labels normalize to the same column
\* name.
C21_OneColumnPerEntry ==
    call.op = "save_metrics_to_csv" =>
        /\ Len(call.header) = Len(call.metrics_dict)
        /\ Len(call.row) = Len(call.metrics_dict)
        /\ \A i \in 1..Len(call.metrics_dict) :
              /\ call.header[i] = new_key(call.metrics_dict[i][1])
              /\ call.row[i] = call.metrics_dict[i][2]

\* C22 (as stated): each plot call releases the figure it acquired on every
\* exit path: once a call has returned or raised, no figure created by that
\* call remains open, so that whenever no plot call is in progress the number
\* of open figures is 0.
C22_FiguresReleased ==
    /\ \A t \in Threads :
          threads[t].pc \in {"returned", "raised"} =>
              \A i \in 1..Len(figs) : figs[i].creator # t
    /\ (\A t \in Threads : threads[t].pc = "idle") => Len(figs) = 0

\* C26 (as stated): when two plot calls run concurrently in two threads,
\* under every interleaving each saved file contains only the curves, lines
\* and legend of its own call, each call closes only the figure it created
\* itself, and no call draws on the figure of the other call.
C26_CallsIsolated ==
    /\ \A t \in Threads :
          threads[t].pc # "idle" =>
              /\ \A i \in 1..Len(threads[t].png) : threads[t].png[i] \subseteq {t}
              /\ \A i \in 1..Len(threads[t].svg) : threads[t].svg[i] \subseteq {t}
              /\ \A i \in 1..Len(threads[t].closed) : threads[t].closed[i] = t
    /\ \A i \in 1..Len(figs) : figs[i].artists \subseteq {figs[i].creator}

\* the number of values of a below v, and at most v
Below(a, v) == CountTrue([i \in 1..Len(a) |-> a[i] < v])
AtMost(a, v) == CountTrue([i \in 1..Len(a) |-> a[i] <= v])

\* q is the median of the array a: the mean of the values of rank
\* ceil(n/2) and floor(n/2)+1
IsMedian(q, a) ==
    /\ q[2] = 2
    /\ \E i, j \in 1..Len(a) :
          /\ q[1] = a[i] + a[j]
          /\ Below(a, a[i]) < (Len(a) + 1) \div 2
          /\ (Len(a) + 1) \div 2 <= AtMost(a, a[i])
          /\ Below(a, a[j]) < Len(a) \div 2 + 1
          /\ Len(a) \div 2 + 1 <= AtMost(a, a[j])

\* f is the first frequency at which psd attains its maximum
IsPeakFrequency(f, freqs, psd) ==
    \E i \in 1..Len(psd) :
        /\ f = freqs[i]
        /\ \A j \in 1..Len(psd) : psd[j] <= psd[i]
        /\ \A j \in 1..(i - 1) : psd[j] < psd[i]

\* the plot calls that have drawn their indicators
Marked == {t \in Threads : "indicators" \in DOMAIN threads[t]}

\* C27: the median-frequency indicator of an axis is the median of that axis'
\* frequency bins and does not depend on the PSD values: two calls with the
\* same frequency arrays mark the same median frequencies; the peak indicator
\* is the first frequency at which the PSD attains its maximum.
C27_MedianIndependentOfPsd ==
    /\ \A t \in Marked :
          LET s == threads[t].spectra
              m == threads[t].indicators
          IN  /\ IsMedian(m.median_freq_ml, s.freqs_ml)
              /\ IsMedian(m.median_freq_ap, s.freqs_ap)
              /\ IsPeakFrequency(m.max_freq_ml, s.freqs_ml, s.psd_ml)
              /\ IsPeakFrequency(m.max_freq_ap, s.freqs_ap, s.psd_ap)
    /\ \A t1 \in Marked, t2 \in Marked :
          /\ threads[t1].spectra.freqs_ml = threads[t2].spectra.freqs_ml =>
                threads[t1].indicators.median_freq_ml
                    = threads[t2].indicators.median_freq_ml
          /\ threads[t1].spectra.freqs_ap = threads[t2].spectra.freqs_ap =>
                threads[t1].indicators.median_freq_ap
                    = threads[t2].indicators.median_freq_ap

\* two calls over the same frequency bins with different PSD values have
\* marked the same medians (1 Hz and 1.5 Hz) and different peaks
C27_Witness ==
    /\ Marked = Threads
    /\ threads["t1"].spectra.freqs_ml = threads["t2"].spectra.freqs_ml
    /\ threads["t1"].spectra.psd_ml # threads["t2"].spectra.psd_ml
    /\ threads["t1"].indicators.median_freq_ml = <<2, 2>>
    /\ threads["t2"].indicators.median_freq_ap = <<3, 2>>
    /\ threads["t1"].indicators.max_freq_ml
           # threads["t2"].indicators.max_freq_ml

\* the frequency axis starts at 0 and is strictly ascending
AscendingFromZero(freqs) ==
    /\ freqs[1][1] = 0
    /\ \A k \in 1..(Len(freqs) - 1) :
          freqs[k][1] * freqs[k + 1][2] < freqs[k + 1][1] * freqs[k][2]

\* the number of frequency bins for a series of N samples
Bins(N) == IF N >= nperseg THEN nperseg \div 2 + 1 ELSE N \div 2 + 1

\* C24: compute_power_spectrum runs without failing for every signal length
\* N >= 1: for N >= 256 there are 129 frequency bins whatever N is, for
\* N < 256 the full signal is one segment (floor(N/2)+1 bins); the frequency
\* axis is strictly ascending, starts at 0, and is the same for ML and AP
\* when the two series have equal length.
C24_SpectrumForEveryLength ==
    (call.op = "compute_power_spectrum" /\ Len(cop_x) >= 1 /\ Len(cop_y) >= 1) =>
        /\ call.status = "ok"
        /\ Len(call.spectrum.freqs_ml) = Bins(Len(cop_x))
        /\ Len(call.spectrum.freqs_ap) = Bins(Len(cop_y))
        /\ call.spectrum.psd_ml = Bins(Len(cop_x))
        /\ call.spectrum.psd_ap = Bins(Len(cop_y))
        /\ AscendingFromZero(call.spectrum.freqs_ml)
        /\ AscendingFromZero(call.spectrum.freqs_ap)
        /\ Len(cop_x) = Len(cop_y) =>
              call.spectrum.freqs_ml = call.spectrum.freqs_ap

\* a series of one sample more than a segment has been analysed: as many
\* bins as for a series of one segment, spaced fs / nperseg apart
C24_Witness ==
    /\ call.op = "compute_power_spectrum"
    /\ Len(cop_x) = nperseg + 1
    /\ Len(call.spectrum.freqs_ml) = nperseg \div 2 + 1
    /\ call.spectrum.freqs_ml[2] = <<call.fs, nperseg>>

\* the fields of a call record that hold what the call returned
ResultFields ==
    {"status", "value", "delta_n", "window", "rms", "spectrum", "peaks"}

\* the call c and the earlier call p are calls of the same analyzer with
\* identical input
SameInput(p, c) ==
    /\ DOMAIN p = DOMAIN c
    /\ \A f \in DOMAIN c \ ResultFields : p[f] = c[f]

C25_AllZeroInput ==
    /\ (/\ call.op \in {"compute_rms", "compute_total_path_length"}
        /\ Len(cop_x) >= 3 /\ Len(cop_y) = Len(cop_x)
        /\ Constant(cop_x, 0) /\ Constant(cop_y, 0)) =>
           /\ call.status = "ok"
           /\ call.op = "compute_rms" =>
                 /\ call.rms.rms_ml.coef = <<0, 1>>
                 /\ call.rms.rms_ap.coef = <<0, 1>>
           /\ call.op = "compute_total_path_length" => call.value = Real(0)
    /\ (/\ call.op \in {"count_zero_crossings", "count_peaks"}
        /\ Len(call.signal) >= 3
        /\ Constant(call.signal, 0)) =>
           /\ call.status = "ok"
           /\ call.value = 0

\* the peaks of an all-zero series of eight samples have been counted
C25_Witness ==
    /\ call.op = "count_peaks"
    /\ call.signal = ScenarioY
    /\ call.peaks = <<>>
    /\ call.value = 0

\* C28 (as stated): convert_coordinates with the metadata saved by
\* resize_with_opencv maps the processed position (X, Y) of a point of the
\* original frame back to that point, for every scale factor and every ROI,
\* also one that is clamped to the frame: the crop recorded in the metadata
\* and the output size derived from it are the crop applied to the frames.
\* Without crop the result is (X/scale, Y/scale).
C28_RoundTrip ==
    call.op = "convert_coordinates" =>
        /\ call.original = <<<<call.pixel[1], 1>>, <<call.pixel[2], 1>>>>
        /\ ~call.meta.crop_applied =>
              /\ call.original[1] = Norm(<<call.processed[1][1],
                       call.processed[1][2] * call.meta.scale_factor>>)
              /\ call.original[2] = Norm(<<call.processed[2][1],
                       call.processed[2][2] * call.meta.scale_factor>>)

\* C29 (as stated): convert_coordinates_by_format with a format_type other
\* than 'mediapipe', 'yolo' or 'vaila' returns the table it returns for
\* 'mediapipe' on the same input and metadata, and in every case the input
\* DataFrame is left unmodified.
C29_FallbackToMediapipe ==
    call.op = "convert_coordinates_by_format" =>
        /\ call.format_type \notin {"mediapipe", "yolo", "vaila"} =>
              call.converted_df
                  = convert_coordinates_by_format(call.df, call.meta, "mediapipe")
        /\ call.df_after = call.df

\* C30 (as stated): ROISelector.select_roi, for any sequence of mouse events
\* and key presses, returns None if ESC is pressed, even after a rectangle
\* was drawn; Enter ends the selection only if an earlier button-up completed
\* a rectangle of width > 0 and height > 0; a later zero-width or zero-height
\* drag does not discard the rectangle selected before; and a returned ROI is
\* the most recent valid rectangle scaled back by 1/scale exactly once, with
\* x, y >= 0 and width, height > 0 inside the original frame.
C30_SelectRoi ==
    call.op = "select_roi" =>
        /\ call.key = "Esc" => call.result = <<>>
        /\ call.key = "Enter" =>
              /\ call.last_valid # <<>>
              /\ call.result = [i \in 1..4 |->
                                   unscale(call.last_valid[i], selector.scale)]
              /\ call.result[1] >= 0 /\ call.result[2] >= 0
              /\ call.result[3] > 0 /\ call.result[4] > 0
              /\ call.result[1] + call.result[3] <= call.width
              /\ call.result[2] + call.result[4] <= call.height
        /\ (call.status = "loop" /\ call.last_valid # <<>>) =>
              /\ selector.roi_selected
              /\ selector.roi = call.last_valid
====
